---- MODULE Spec2Model ----
(***************************************************************************)
(* Playback engine of AudioSphere: the useAudioPlayer hook                 *)
(* (client/src/hooks/use-audio-player.tsx, the version that resolves       *)
(* device tracks through OfflineStorage) on top of MobileAudioManager      *)
(* (lib/mobile-audio-manager.ts) and the HTMLAudioElement it owns.         *)
(*                                                                         *)
(* One action is one task of the browser's event loop: a UI call or an     *)
(* event of the audio element, together with every promise continuation    *)
(* (microtask) it releases, followed by React's re-render.  A callback     *)
(* invoked by the UI is the one of the latest render; an async function    *)
(* in flight and a listener registered earlier keep the state they closed  *)
(* over.                                                                   *)
(***************************************************************************)
EXTENDS Integers, Sequences, FiniteSets, TLC

\* ------------------------------------------------------------------ bounds
MaxList == 2        \* longest track list handed to setPlaylist / playFromList
MaxCalls == 3       \* play / loadTrack invocations awaiting something at once
MaxHandlers == 9   \* 'ended' listeners registered on the element (renders)
MaxOps == 2         \* UI calls in a session that may use every operation
MaxLoadOps == 3     \* UI calls in a session of play / loadTrack / pause
MaxQueueOps == 2    \* UI calls in a session of queue operations
MaxListOps == 2     \* UI calls in a session of playFromList over every list
MaxRepeatOps == 3   \* UI calls in a session of setPlaylist / toggleRepeat
MaxPlatformOps == 2 \* calls in a session with the platform's media controls
MaxSeekOps == 3     \* UI calls in a session of play / pause / seekTo
MaxVolumeOps == 3   \* UI calls in a session of play / setVolume / toggleMute
MaxShimOps == 2     \* UI calls in a session with or without the Media Session API
MaxShuffleOps == 4  \* UI calls in a session of toggles, setPlaylist and next
MaxPreviousOps == 3 \* UI calls in a session of setPlaylist / previous / toggleRepeat
MaxSourceOps == 2   \* UI calls in a session of play / loadTrack over every source kind
MaxFrameOps == 2    \* UI calls in a session of every operation on a queue
MaxPositionOps == 3 \* UI calls in a session whose position pushes may be rejected

\* --------------------------------------------------------------- the tracks
NoTrack == 0
RemoteTrack == 1    \* fileSource 'google_drive': fileUrl is handed to the output
DeviceTrack == 2    \* fileSource 'device': blob looked up by track.id
LocalTrack == 3     \* fileSource 'local', uploaded as a data: URL
Tracks == {RemoteTrack, DeviceTrack}

\* A test of the source kind that knows 'device' only
IsDeviceLocal_deviceOnly(t) == t = DeviceTrack

\* track.fileSource === 'device' || track.fileSource === 'local'
IsDeviceLocal(t) == t \in {DeviceTrack, LocalTrack}

\* A URL is told by where it comes from: the fileUrl stored with a track, or
\* URL.createObjectURL of the blob the store holds for the track's id (all
\* object URLs made of one blob are taken as one).
NoUrl == [kind |-> "none", track |-> NoTrack]
FileUrl(t) == [kind |-> "fileUrl", track |-> t]
ObjectURL(t) == [kind |-> "objectURL", track |-> t]

\* An entry of urlOps: a call of getAudioBlob(id), URL.revokeObjectURL(url)
\* or URL.createObjectURL(blob), or the assignment `audioElement.src = url`;
\* id is the track.id the call is made for (NoTrack for an assignment, which
\* the manager makes without knowing the track)
UrlOp(op, url, id) == [op |-> op, url |-> url, id |-> id]

\* audioUrl.startsWith('blob:'): an object URL, or the fileUrl of a device
\* track, which the device import made with URL.createObjectURL(file)
StartsWithBlob(u) ==
  u.kind = "objectURL" \/ (u.kind = "fileUrl" /\ u.track = DeviceTrack)

\* what audioElement.duration reports once the source of track t is loaded
MediaDuration(t) == t

\* Volumes are counted in tenths: VolumeUnit stands for 1.0
VolumeUnit == 10
InitialVolume == 7  \* volume: 0.7 in the hook's initial state

NoCall == [kind |-> "none", track |-> NoTrack, pc |-> "idle", load |-> "none", latest |-> FALSE]

VARIABLES
  state,          \* the hook's React state (AudioPlayerState)
  audio,          \* the HTMLAudioElement of MobileAudioManager
  calls,          \* play / loadTrack invocations in flight, by slot
  loadListeners,  \* slots whose onLoad/onError listeners are on the element
  playPromises,   \* slots awaiting the promise of audioElement.play()
  endedHandlers,  \* closures registered with onEnded, in registration order
  lastLoad,       \* the loadTrack invocation started last, and how it ended
  lastOp,         \* the last UI call or 'ended' event, and what it triggered
  left,           \* UI calls the session still makes
  task,           \* the task that ran last
  cmds,           \* commands issued to the output during the last task
  settled,        \* invocations that settled during the last task
  hasMediaSession, \* MobileAudioManager.hasMediaSession
  currentMetadata, \* MobileAudioManager.currentMetadata, by track
  session,        \* navigator.mediaSession: playbackState and metadata
  pushes,         \* writes to navigator.mediaSession during the last task
  urlOps          \* store lookups and URL operations during the last task

vars == <<state, audio, calls, loadListeners, playPromises, endedHandlers,
          lastLoad, lastOp, left, task, cmds, settled,
          hasMediaSession, currentMetadata, session, pushes, urlOps>>

\* ------------------------------------------------------------ pure helpers

\* Math.min, Math.max
Min(a, b) == IF a < b THEN a ELSE b
Max(a, b) == IF a > b THEN a ELSE b

RECURSIVE ListsUpTo(_)
ListsUpTo(n) ==
  IF n = 0 THEN {<<>>}
  ELSE ListsUpTo(n - 1) \cup [1..n -> Tracks]

TrackLists == ListsUpTo(MaxList)

\* A slice that begins one element late
Slice_skipsSelected(list, start) == SubSeq(list, start + 2, Len(list))

\* Array.prototype.slice(start) for 0 <= start <= length (0-based start)
Slice(list, start) == SubSeq(list, start + 1, Len(list))

\* list[i] with a 0-based index; undefined (NoTrack) outside the array
At(list, i) == IF 0 <= i /\ i < Len(list) THEN list[i + 1] ELSE NoTrack

\* The values a render closes over in nextTrack / previousTrack / play:
\* the dependency lists of their useCallback.
Snapshot(st) ==
  [playlist |-> st.playlist, currentIndex |-> st.currentIndex,
   shuffle |-> st.shuffle, repeat |-> st.repeat,
   currentTrack |-> st.currentTrack, isPlaying |-> st.isPlaying]

InitialState ==
  [currentTrack |-> NoTrack, isPlaying |-> FALSE, currentTime |-> 0,
   duration |-> 0, volume |-> InitialVolume, isMuted |-> FALSE,
   shuffle |-> FALSE, repeat |-> FALSE,
   playlist |-> <<>>, currentIndex |-> -1]

\* A new Audio(): src is the track whose media url points at; ls, pl and tu
\* tell that a task firing 'loadstart' (queued by the load algorithm),
\* 'play' (queued by play() on a paused element) or 'timeupdate' (queued by
\* pause() or by a seek) waits in the element's task queue.
InitialAudio ==
  [src |-> NoTrack, url |-> NoUrl, net |-> "empty", paused |-> TRUE,
   currentTime |-> 0, duration |-> 0, volume |-> VolumeUnit,
   ls |-> FALSE, pl |-> FALSE, tu |-> FALSE]

\* navigator.mediaSession before anything was written to it
InitialSession == [playbackState |-> "none", metadata |-> NoTrack]

\* ------------------------------------------------- the world within a task
\* The operators below thread one record through the synchronous code of a
\* task: st = React state as the queued updaters will leave it, au = the
\* element, ll / pp = loadListeners / playPromises, ok = FALSE when a bound
\* of the model was exceeded.
World ==
  [st |-> state, au |-> audio, calls |-> calls, ll |-> loadListeners,
   pp |-> playPromises, lastLoad |-> lastLoad, cmds |-> <<>>,
   settled |-> <<>>, plays |-> <<>>, evals |-> 0, failed |-> lastOp.failed,
   ms |-> hasMediaSession, meta |-> currentMetadata, session |-> session,
   pushes |-> <<>>, urlOps |-> <<>>, ok |-> TRUE]

\* A write to navigator.mediaSession, remembered with the React state as
\* the updaters queued so far leave it
Pushed(w, what, value) ==
  [what |-> what, value |-> value,
   isPlaying |-> w.st.isPlaying, currentTrack |-> w.st.currentTrack]

\* MobileAudioManager.setMediaSessionState (activateMediaSession writes
\* 'paused' the same way)
SetMediaSessionState(w, s) ==
  IF ~w.ms THEN w
  ELSE [w EXCEPT !.session.playbackState = s,
                 !.pushes = Append(@, Pushed(w, "playbackState", s))]

\* MobileAudioManager.updateMediaSessionMetadata
UpdateMediaSessionMetadata(w) ==
  IF ~w.ms \/ w.meta = NoTrack THEN w
  ELSE [w EXCEPT !.session.metadata = w.meta,
                 !.pushes = Append(@, Pushed(w, "metadata", w.meta))]

\* An updatePositionState whose failure stops the element
UpdatePositionState_fatal(w, rejects) ==
  IF ~w.ms \/ w.au.duration = 0 THEN w
  ELSE IF rejects
         THEN [w EXCEPT !.au.paused = TRUE,
                        !.pushes = Append(@, Pushed(w, "positionState", "rejected"))]
       ELSE [w EXCEPT !.pushes = Append(@, Pushed(w, "positionState", "set"))]

\* MobileAudioManager.updatePositionState: nothing is pushed without the
\* API or while the element reports no duration; rejects tells that
\* navigator.mediaSession.setPositionState throws, which the catch block
\* swallows.
UpdatePositionState(w, rejects) ==
  IF ~w.ms \/ w.au.duration = 0 THEN w
  ELSE [w EXCEPT !.pushes = Append(@, Pushed(w, "positionState",
                                 IF rejects THEN "rejected" ELSE "set"))]

FreeSlots(w) == {i \in 1..MaxCalls : w.calls[i].kind = "none"}

HasSlot(w) == FreeSlots(w) # {}

NewSlot(w) == CHOOSE i \in FreeSlots(w) : \A j \in FreeSlots(w) : i <= j

\* What the caller of a settled invocation of fn ("play" or "loadTrack")
\* observes: result is "resolved" or "rejected"; load tells how the load of
\* the invocation went.
Outcome(fn, c, result) ==
  [fn |-> fn, track |-> c.track, load |-> c.load, result |-> result]

\* The invocation in slot id settles: its slot is freed and the outcome is
\* recorded.
Settle(w, id, result) ==
  [w EXCEPT !.calls[id] = NoCall,
            !.settled = Append(@, Outcome(IF w.calls[id].kind = "play" THEN "play"
                                          ELSE "loadTrack", w.calls[id], result))]

\* The load of invocation id has ended with outcome r; remember it when the
\* invocation is the loadTrack started last.
NoteLoad(w, id, r) ==
  [w EXCEPT !.calls[id].load = r,
            !.failed = @ \/ r # "ok",
            !.lastLoad = IF w.calls[id].latest
                           THEN [track |-> w.calls[id].track, status |-> r]
                           ELSE @]

\* HTMLMediaElement "reject pending play promises": MobileAudioManager.play
\* logs and rethrows, so the hook's play rejects without touching the state.
RECURSIVE RejectPlayPromises(_)
RejectPlayPromises(w) ==
  IF w.pp = <<>> THEN w
  ELSE RejectPlayPromises(Settle([w EXCEPT !.pp = Tail(@)], Head(w.pp), "rejected"))

\* HTMLMediaElement.pause(): an element that was not paused is paused, its
\* pending play promises are rejected and a task firing 'timeupdate' and
\* 'pause' is queued.
ElementPause(w) ==
  IF w.au.paused THEN w
  ELSE RejectPlayPromises([w EXCEPT !.au.paused = TRUE, !.au.tu = TRUE])

\* A pause that reaches the element only when the media session exists
ManagerPause_needsSession(w) ==
  IF w.ms
    THEN SetMediaSessionState(ElementPause([w EXCEPT !.cmds = Append(@, "pause")]), "paused")
  ELSE w

\* MobileAudioManager.pause
ManagerPause(w) ==
  SetMediaSessionState(ElementPause([w EXCEPT !.cmds = Append(@, "pause")]), "paused")

\* HTMLMediaElement.play() without a caller awaiting its promise: an element
\* whose source failed rejects and stays as it is, any other is unpaused
\* (rewinding when playback had ended).
ElementPlay(w) ==
  IF w.au.net = "error" THEN w
  ELSE [w EXCEPT !.au.paused = FALSE,
                 !.au.pl = @ \/ w.au.paused,
                 !.au.currentTime =
                    IF w.au.net = "loaded" /\ @ = w.au.duration THEN 0 ELSE @]

\* The position a seek to s ends at: within [0, duration]
SeekPosition(s, duration) ==
  IF s < 0 THEN 0 ELSE IF s > duration THEN duration ELSE s

\* `audioElement.currentTime = s`: with media loaded the element seeks,
\* clamping s to the media, and queues a task firing 'timeupdate'; without
\* media the current position stays as it is.
ElementSeek(w, s) ==
  IF w.au.net = "loaded"
    THEN [w EXCEPT !.au.currentTime = SeekPosition(s, w.au.duration), !.au.tu = TRUE]
  ELSE w

\* MobileAudioManager.seekTo
ManagerSeekTo(w, s) == ElementSeek([w EXCEPT !.cmds = Append(@, "seek")], s)

\* The media element load algorithm, run by `audioElement.src = url` and
\* again by `audioElement.load()`: an element that had a source is paused
\* and its pending play promises are rejected; the queued events of the
\* previous source are dropped, its listeners stay registered, and a task
\* firing 'loadstart' is queued.
ElementLoad(w, url) ==
  LET w1 == IF w.au.net = "empty" THEN w ELSE ElementPause(w)
  IN [w1 EXCEPT !.au.src = url.track, !.au.url = url, !.au.net = "loading",
                !.au.currentTime = 0, !.au.duration = 0,
                !.au.ls = TRUE, !.au.pl = FALSE, !.au.tu = FALSE,
                !.urlOps = Append(@, UrlOp("assign", url, NoTrack))]

\* A manager whose new load takes the place of the listeners of the loads
\* before it
ManagerLoadTrack_dropsListeners(w, id, url) ==
  LET t == w.calls[id].track
      w1 == ElementLoad([w EXCEPT !.cmds = Append(@, "load"), !.meta = t], url)
  IN [w1 EXCEPT !.ll = <<id>>, !.calls[id].pc = "loading"]

\* MobileAudioManager.loadTrack(url, metadata) up to the promise it returns;
\* the metadata are those of the track of invocation id
ManagerLoadTrack(w, id, url) ==
  LET t == w.calls[id].track
      w1 == ElementLoad([w EXCEPT !.cmds = Append(@, "load"), !.meta = t], url)
  IN [w1 EXCEPT !.ll = Append(@, id), !.calls[id].pc = "loading"]

\* MobileAudioManager.play: audioElement.play() and the await on its promise.
\* An element whose source failed rejects at once; otherwise the element is
\* unpaused (rewinding when playback had ended) and the promise stays
\* pending until the element can play.
ManagerPlay(w, id) ==
  LET w1 == [w EXCEPT !.cmds = Append(@, "play")]
  IN IF w1.au.net = "error" THEN Settle(w1, id, "rejected")
     ELSE [w1 EXCEPT !.au.paused = FALSE,
                     !.au.pl = @ \/ w1.au.paused,
                     !.au.currentTime =
                        IF w1.au.net = "loaded" /\ @ = w1.au.duration THEN 0 ELSE @,
                     !.pp = Append(@, id),
                     !.calls[id].pc = "starting"]

\* useAudioPlayer.loadTrack up to its first await: a device track awaits
\* offlineStorage.getAudioBlob(track.id), any other track hands its fileUrl
\* to the manager.
HookLoadTrackStart(w, id, t) ==
  LET w1 == [w EXCEPT !.calls = [i \in 1..MaxCalls |->
                         IF i = id THEN [@[i] EXCEPT !.latest = TRUE]
                         ELSE [@[i] EXCEPT !.latest = FALSE]],
                      !.lastLoad = [track |-> t, status |-> "pending"]]
  IN IF IsDeviceLocal(t)
       THEN [w1 EXCEPT !.calls[id].pc = "lookup",
                       !.urlOps = Append(@, UrlOp("getAudioBlob", NoUrl, t))]
     ELSE ManagerLoadTrack(w1, id, FileUrl(t))

\* loadTrack after getAudioBlob resolved with a blob: the track's fileUrl
\* is revoked when it is a blob: URL, an object URL is made of the blob and
\* handed to the manager.
HookLoadTrackBlob(w, id) ==
  LET t == w.calls[id].track
      w1 == IF StartsWithBlob(FileUrl(t))
              THEN [w EXCEPT !.urlOps = Append(@, UrlOp("revokeObjectURL", FileUrl(t), t))]
            ELSE w
      w2 == [w1 EXCEPT !.urlOps = Append(@, UrlOp("createObjectURL", ObjectURL(t), t))]
  IN ManagerLoadTrack(w2, id, ObjectURL(t))

\* How a loadTrack invocation whose load ended with `load` settles for its
\* caller: the try block completes, or the catch block swallows the error;
\* either way the promise resolves.
LoadTrackResult(load) == "resolved"

\* The rest of an invocation once its loadTrack has returned: a direct
\* loadTrack call is done; play goes on with
\* `if (state.currentTrack || track) await manager.play()`, where track is
\* set on this path.
AfterLoadTrack(w, id) ==
  IF w.calls[id].kind = "play"
    THEN IF LoadTrackResult(w.calls[id].load) = "resolved"
           THEN ManagerPlay([w EXCEPT !.settled = Append(@,
                   Outcome("loadTrack", w.calls[id], "resolved"))], id)
           ELSE Settle([w EXCEPT !.settled = Append(@,
                   Outcome("loadTrack", w.calls[id], "rejected"))], id, "rejected")
  ELSE Settle(w, id, LoadTrackResult(w.calls[id].load))

\* LoadedState without the reset of currentTime
LoadedState_keepsTime(st, t, dur) ==
  [st EXCEPT !.currentTrack = t, !.duration = dur]

\* The state update of loadTrack after the manager's promise resolved
LoadedState(st, t, dur) ==
  [st EXCEPT !.currentTrack = t, !.currentTime = 0, !.duration = dur]

\* The state update of loadTrack's catch block
LoadFailedState(st, t) == [st EXCEPT !.isPlaying = FALSE]

\* loadTrack after `await manager.loadTrack(...)` resolved
HookLoadResolved(w, id) ==
  LET t == w.calls[id].track
      w1 == [w EXCEPT !.st = LoadedState(@, t, w.au.duration)]
  IN AfterLoadTrack(NoteLoad(w1, id, "ok"), id)

\* loadTrack's catch block: blob missing ("notfound") or element error ("decode")
HookLoadRejected(w, id, why) ==
  LET t == w.calls[id].track
      w1 == [w EXCEPT !.st = LoadFailedState(@, t)]
  IN AfterLoadTrack(NoteLoad(w1, id, why), id)

\* Whether play(track) loads: `track && (!state.currentTrack ||
\* track.id !== state.currentTrack.id)` over the state the closure captured
NeedsLoad(cap, t) ==
  t # NoTrack /\ (cap.currentTrack = NoTrack \/ t # cap.currentTrack)

\* useAudioPlayer.play(track) up to its first await, run by the closure of
\* a render whose state was cap.
HookPlay(w, cap, t) ==
  LET w0 == [w EXCEPT !.plays = Append(@, t)]
      w1 == IF cap.isPlaying
              THEN [ManagerPause(w0) EXCEPT !.st.isPlaying = FALSE]
              ELSE w0
      id == NewSlot(w1)
      fresh == [kind |-> "play", track |-> t, pc |-> "idle",
                load |-> "none", latest |-> FALSE]
  IN IF NeedsLoad(cap, t)
       THEN IF HasSlot(w1)
              THEN HookLoadTrackStart([w1 EXCEPT !.calls[id] = fresh], id, t)
              ELSE [w1 EXCEPT !.ok = FALSE]
     ELSE IF cap.currentTrack # NoTrack \/ t # NoTrack
       THEN IF HasSlot(w1)
              THEN ManagerPlay([w1 EXCEPT !.calls[id] = [fresh EXCEPT !.load = "skipped"]], id)
              ELSE [w1 EXCEPT !.ok = FALSE]
     ELSE w1

\* useAudioPlayer.loadTrack(track) called directly
HookLoadTrack(w, t) ==
  LET id == NewSlot(w)
      fresh == [kind |-> "load", track |-> t, pc |-> "idle",
                load |-> "none", latest |-> FALSE]
  IN IF HasSlot(w)
       THEN HookLoadTrackStart([w EXCEPT !.calls[id] = fresh], id, t)
       ELSE [w EXCEPT !.ok = FALSE]

\* ------------------------------------------------------- queue controller
NoMove == -2

\* nextTrack wrapping to 0 whether or not repeat is set
NextIndex_alwaysWraps(h, r) ==
  IF h.shuffle THEN r
  ELSE IF h.currentIndex + 1 >= Len(h.playlist) THEN 0
       ELSE h.currentIndex + 1

\* nextTrack stopping at the end of the queue under shuffle too
NextIndex_shuffleStops(h, r) ==
  IF h.currentIndex + 1 >= Len(h.playlist) /\ ~h.repeat THEN NoMove
  ELSE IF h.shuffle THEN r ELSE h.currentIndex + 1

\* The index nextTrack moves to, from the state h its closure captured;
\* r is the value of Math.floor(Math.random() * playlist.length).
NextIndex(h, r) ==
  IF h.shuffle THEN r
  ELSE IF h.currentIndex + 1 >= Len(h.playlist)
         THEN IF h.repeat THEN 0 ELSE NoMove
         ELSE h.currentIndex + 1

\* The index previousTrack moves to
PrevIndex(h, r) ==
  IF h.shuffle THEN r
  ELSE IF h.currentIndex - 1 < 0
         THEN IF h.repeat THEN Len(h.playlist) - 1 ELSE 0
         ELSE h.currentIndex - 1

\* The draws Math.random can produce for the closure h
Draws(h) == IF h.shuffle /\ Len(h.playlist) > 0 THEN 0..(Len(h.playlist) - 1) ELSE {0}

\* A nextTrack that writes the queue its closure captured back
NextTrackBy_staleQueue(w, h, r) ==
  LET w1 == [w EXCEPT !.evals = @ + 1]
      n == NextIndex(h, r)
  IN IF n = NoMove THEN w1
     ELSE HookPlay([w1 EXCEPT !.st.currentIndex = n, !.st.playlist = h.playlist],
                   h, At(h.playlist, n))

\* nextTrack as the closure of a render with state h runs it
NextTrackBy(w, h, r) ==
  LET w1 == [w EXCEPT !.evals = @ + 1]
      n == NextIndex(h, r)
  IN IF Len(h.playlist) = 0 \/ n = NoMove THEN w1
     ELSE HookPlay([w1 EXCEPT !.st.currentIndex = n], h, At(h.playlist, n))

\* previousTrack as the closure of a render with state h runs it
PreviousTrackBy(w, h, r) ==
  LET n == PrevIndex(h, r)
  IN IF Len(h.playlist) = 0 THEN w
     ELSE HookPlay([w EXCEPT !.st.currentIndex = n], h, At(h.playlist, n))

\* A setPlaylist that always starts with the first track
SetPlaylistBy_playsFirst(w, h, tracks, startIndex) ==
  LET w1 == [w EXCEPT !.st.playlist = tracks, !.st.currentIndex = startIndex]
  IN IF Len(tracks) > 0 /\ startIndex >= 0 /\ startIndex < Len(tracks)
       THEN HookPlay(w1, h, At(tracks, 0))
       ELSE w1

\* setPlaylist(tracks, startIndex)
SetPlaylistBy(w, h, tracks, startIndex) ==
  LET w1 == [w EXCEPT !.st.playlist = tracks, !.st.currentIndex = startIndex]
  IN IF Len(tracks) > 0 /\ startIndex >= 0 /\ startIndex < Len(tracks)
       THEN HookPlay(w1, h, At(tracks, startIndex))
       ELSE w1

\* A playFromList that rejects negative indexes only
PlayFromListBy_lowerBoundOnly(w, h, sourceList, selectedIndex) ==
  IF selectedIndex < 0 THEN w
  ELSE LET newPlayQueue == Slice(sourceList, selectedIndex)
       IN HookPlay([w EXCEPT !.st.playlist = newPlayQueue, !.st.currentIndex = 0],
                   h, At(newPlayQueue, 0))

\* playFromList(sourceList, selectedIndex)
PlayFromListBy(w, h, sourceList, selectedIndex) ==
  IF selectedIndex < 0 \/ selectedIndex >= Len(sourceList) THEN w
  ELSE LET newPlayQueue == Slice(sourceList, selectedIndex)
       IN HookPlay([w EXCEPT !.st.playlist = newPlayQueue, !.st.currentIndex = 0],
                   h, At(newPlayQueue, 0))

\* A toggleShuffle that only ever turns shuffle on
ToggleShuffleBy_onlyOn(w) == [w EXCEPT !.st.shuffle = TRUE]

\* useAudioPlayer.toggleShuffle
ToggleShuffleBy(w) == [w EXCEPT !.st.shuffle = ~@]

\* useAudioPlayer.toggleRepeat
ToggleRepeatBy(w) == [w EXCEPT !.st.repeat = ~@]

\* A pause that flips isPlaying instead of clearing it
PauseBy_toggles(w) == [ManagerPause(w) EXCEPT !.st.isPlaying = ~@]

\* useAudioPlayer.pause
PauseBy(w) == [ManagerPause(w) EXCEPT !.st.isPlaying = FALSE]

\* useAudioPlayer.seekTo(position)
SeekToBy(w, position) ==
  [ManagerSeekTo(w, position) EXCEPT !.st.currentTime = position]

\* MobileAudioManager.setVolume
ManagerSetVolume(w, volume) ==
  [w EXCEPT !.au.volume = Max(0, Min(VolumeUnit, volume)),
            !.cmds = Append(@, "volume")]

\* setVolume storing and passing on its argument as it is
SetVolumeBy_unclamped(w, volume) ==
  [ManagerSetVolume(w, volume) EXCEPT
     !.st.volume = volume, !.st.isMuted = (volume = 0)]

\* useAudioPlayer.setVolume(volume)
SetVolumeBy(w, volume) ==
  LET clampedVolume == Max(0, Min(VolumeUnit, volume))
  IN [ManagerSetVolume(w, clampedVolume) EXCEPT
        !.st.volume = clampedVolume, !.st.isMuted = (clampedVolume = 0)]

\* toggleMute restoring full volume instead of the stored one
ToggleMuteBy_fullVolume(w, cap) ==
  IF cap.isMuted
    THEN [ManagerSetVolume(w, VolumeUnit) EXCEPT !.st.isMuted = FALSE]
  ELSE [ManagerSetVolume(w, 0) EXCEPT !.st.isMuted = TRUE]

\* useAudioPlayer.toggleMute, run by the closure of a render whose state
\* was cap
ToggleMuteBy(w, cap) ==
  IF cap.isMuted
    THEN [ManagerSetVolume(w, cap.volume) EXCEPT !.st.isMuted = FALSE]
  ELSE [ManagerSetVolume(w, 0) EXCEPT !.st.isMuted = TRUE]

\* A 'timeupdate' listener that leaves isPlaying as it is
TimeUpdateState_keepsPlaying(st, au) ==
  [st EXCEPT !.currentTime = au.currentTime, !.duration = au.duration]

\* The listener of onTimeUpdate registered by the hook's first effect
TimeUpdateState(st, au) ==
  [st EXCEPT !.currentTime = au.currentTime, !.duration = au.duration,
             !.isPlaying = ~au.paused]

\* Every listener registered with onEnded runs, oldest first, each with the
\* state of the render that registered it; picks[k] is the k-th one's draw.
RECURSIVE RunEndedHandlers(_, _, _, _)
RunEndedHandlers(w, hs, picks, k) ==
  IF k > Len(hs) THEN w
  ELSE RunEndedHandlers(NextTrackBy(w, hs[k], picks[k]), hs, picks, k + 1)

\* onLoad of MobileAudioManager.loadTrack before it resolves the promise:
\* updateMediaSessionMetadata and activateMediaSession
ManagerOnLoad(w) == SetMediaSessionState(UpdateMediaSessionMetadata(w), "paused")

\* The elements of the listener list in turn: HookLoadResolved for
\* 'loadeddata', HookLoadRejected for 'error'
RECURSIVE RunLoadListeners(_, _, _)
RunLoadListeners(w, ids, outcome) ==
  IF ids = <<>> THEN w
  ELSE RunLoadListeners(
         IF outcome = "ok" THEN HookLoadResolved(ManagerOnLoad(w), Head(ids))
         ELSE HookLoadRejected(w, Head(ids), outcome),
         Tail(ids), outcome)

\* The promises of audioElement.play() resolve: manager.play writes
\* 'playing' to the media session and returns, then the hook's play sets
\* isPlaying.
RECURSIVE ResolvePlayPromises(_)
ResolvePlayPromises(w) ==
  IF w.pp = <<>> THEN w
  ELSE LET w1 == SetMediaSessionState(w, "playing")
       IN ResolvePlayPromises(
            Settle([w1 EXCEPT !.pp = Tail(@), !.st.isPlaying = TRUE],
                   Head(w1.pp), "resolved"))

\* ------------------------------------------------------------------ tasks
\* The effect `useEffect(..., [nextTrack, previousTrack])` runs after a
\* render whose nextTrack / previousTrack changed and adds one more 'ended'
\* listener; none is ever removed.
Rerender(hs, old, new) ==
  IF Snapshot(new) # Snapshot(old) THEN Append(hs, Snapshot(new)) ELSE hs

\* End of a task: the world becomes the next state and React re-renders.
Commit(w) ==
  /\ w.ok
  /\ Len(Rerender(endedHandlers, state, w.st)) <= MaxHandlers
  /\ state' = w.st
  /\ audio' = w.au
  /\ calls' = w.calls
  /\ loadListeners' = w.ll
  /\ playPromises' = w.pp
  /\ lastLoad' = w.lastLoad
  /\ cmds' = w.cmds
  /\ settled' = w.settled
  /\ currentMetadata' = w.meta
  /\ session' = w.session
  /\ pushes' = w.pushes
  /\ urlOps' = w.urlOps
  /\ UNCHANGED hasMediaSession
  /\ endedHandlers' = Rerender(endedHandlers, state, w.st)

\* No play / loadTrack invocation is in flight
Quiescent ==
  /\ \A i \in 1..MaxCalls : calls[i].kind = "none"
  /\ loadListeners = <<>>
  /\ playPromises = <<>>

\* How a load fails: blob missing from the store, 'error' of the element
LoadFailures == {"notfound", "decode"}

\* What is remembered of a UI call or an 'ended' event: its arguments (for
\* 'ended', index is the queue index it found), the tracks play was invoked
\* with, the number of nextTrack evaluations, whether a load has failed
\* since, whether the same call preceded it, and whether it found the
\* engine at rest after a load that failed (recovering).
Op(name, track, list, index, w) ==
  [name |-> name, track |-> track, list |-> list, index |-> index,
   plays |-> w.plays, evals |-> w.evals, failed |-> w.failed,
   again |-> (task = name),
   recovering |-> (Quiescent /\ lastLoad.status \in LoadFailures)]

NoOp == [name |-> "none", track |-> NoTrack, list |-> <<>>, index |-> 0,
         plays |-> <<>>, evals |-> 0, failed |-> FALSE, again |-> FALSE,
         recovering |-> FALSE]

\* The hook after its first render and effects, in a session of n UI calls;
\* ms tells whether the Media Session API was detected.
StartWith(n, ms) ==
  /\ hasMediaSession = ms
  /\ currentMetadata = NoTrack
  /\ session = InitialSession
  /\ pushes = <<>>
  /\ urlOps = <<>>
  /\ state = InitialState
  /\ audio = InitialAudio
  /\ calls = [i \in 1..MaxCalls |-> NoCall]
  /\ loadListeners = <<>>
  /\ playPromises = <<>>
  /\ endedHandlers = <<Snapshot(InitialState)>>
  /\ lastLoad = [track |-> NoTrack, status |-> "none"]
  /\ lastOp = NoOp
  /\ left = n
  /\ task = "start"
  /\ cmds = <<>>
  /\ settled = <<>>

\* A session of n UI calls in a browser with the Media Session API
Start(n) == StartWith(n, TRUE)

\* The world at the start of a UI call or an 'ended' event
Fresh == [World EXCEPT !.failed = FALSE]

\* --- UI calls, made through the callbacks of the latest render
UICall(w, op) ==
  /\ Commit(w)
  /\ lastOp' = op
  /\ task' = op.name
  /\ left' = left - 1

Play(t) ==
  /\ left > 0
  /\ LET w == HookPlay(Fresh, Snapshot(state), t)
     IN UICall(w, Op("play", t, <<>>, 0, w))

LoadTrack(t) ==
  /\ left > 0
  /\ LET w == HookLoadTrack(Fresh, t)
     IN UICall(w, Op("loadTrack", t, <<>>, 0, w))

Pause ==
  /\ left > 0
  /\ LET w == PauseBy(Fresh)
     IN UICall(w, Op("pause", NoTrack, <<>>, 0, w))

SeekTo(position) ==
  /\ left > 0
  /\ LET w == SeekToBy(Fresh, position)
     IN UICall(w, Op("seekTo", NoTrack, <<>>, position, w))

SetPlaylist(tracks, startIndex) ==
  /\ left > 0
  /\ LET w == SetPlaylistBy(Fresh, Snapshot(state), tracks, startIndex)
     IN UICall(w, Op("setPlaylist", NoTrack, tracks, startIndex, w))

PlayFromList(sourceList, selectedIndex) ==
  /\ left > 0
  /\ LET w == PlayFromListBy(Fresh, Snapshot(state), sourceList, selectedIndex)
     IN UICall(w, Op("playFromList", NoTrack, sourceList, selectedIndex, w))

NextTrack(r) ==
  /\ left > 0
  /\ LET w == NextTrackBy(Fresh, Snapshot(state), r)
     IN UICall(w, Op("next", NoTrack, <<>>, r, w))

PreviousTrack(r) ==
  /\ left > 0
  /\ LET w == PreviousTrackBy(Fresh, Snapshot(state), r)
     IN UICall(w, Op("previous", NoTrack, <<>>, r, w))

ToggleShuffle ==
  /\ left > 0
  /\ LET w == ToggleShuffleBy(Fresh)
     IN UICall(w, Op("toggleShuffle", NoTrack, <<>>, 0, w))

ToggleRepeat ==
  /\ left > 0
  /\ LET w == ToggleRepeatBy(Fresh)
     IN UICall(w, Op("toggleRepeat", NoTrack, <<>>, 0, w))

SetVolume(volume) ==
  /\ left > 0
  /\ LET w == SetVolumeBy(Fresh, volume)
     IN UICall(w, Op("setVolume", NoTrack, <<>>, volume, w))

ToggleMute ==
  /\ left > 0
  /\ LET w == ToggleMuteBy(Fresh, state)
     IN UICall(w, Op("toggleMute", NoTrack, <<>>, 0, w))

\* --- commands of the platform's media controls, routed by the action
\* handlers MobileAudioManager registers when the Media Session API exists
\* 'play': audioElement.play().catch(...)
PlatformPlay ==
  /\ left > 0 /\ hasMediaSession
  /\ LET w == ElementPlay([Fresh EXCEPT !.cmds = Append(@, "play")])
     IN UICall(w, Op("mediaPlay", NoTrack, <<>>, 0, w))

\* 'pause': audioElement.pause()
PlatformPause ==
  /\ left > 0 /\ hasMediaSession
  /\ LET w == ElementPause([Fresh EXCEPT !.cmds = Append(@, "pause")])
     IN UICall(w, Op("mediaPause", NoTrack, <<>>, 0, w))

\* 'seekto': audioElement.currentTime = details.seekTime
PlatformSeekTo(seekTime) ==
  /\ left > 0 /\ hasMediaSession
  /\ LET w == ElementSeek([Fresh EXCEPT !.cmds = Append(@, "seek")], seekTime)
     IN UICall(w, Op("mediaSeekTo", NoTrack, <<>>, seekTime, w))

\* 'nexttrack': onNextCallback, the nextTrack of the render whose effect
\* ran last
PlatformNext(r) ==
  /\ left > 0 /\ hasMediaSession
  /\ LET w == NextTrackBy(Fresh, Snapshot(state), r)
     IN UICall(w, Op("mediaNext", NoTrack, <<>>, r, w))

\* 'previoustrack': onPreviousCallback
PlatformPrevious(r) ==
  /\ left > 0 /\ hasMediaSession
  /\ LET w == PreviousTrackBy(Fresh, Snapshot(state), r)
     IN UICall(w, Op("mediaPrevious", NoTrack, <<>>, r, w))

\* A task that is not a UI call
Event(name, w) ==
  /\ Commit(w)
  /\ lastOp' = [lastOp EXCEPT !.failed = w.failed]
  /\ task' = name
  /\ UNCHANGED left

\* --- completions of the persistent track store
\* getAudioBlob resolved with a blob: createObjectURL and manager.loadTrack
LookupHit(id) ==
  /\ calls[id].pc = "lookup"
  /\ Event("lookupHit", HookLoadTrackBlob(World, id))

\* getAudioBlob resolved with null: `throw new Error('Audio file not found
\* in offline storage.')`, caught by loadTrack itself
LookupMiss(id) ==
  /\ calls[id].pc = "lookup"
  /\ Event("lookupMiss", HookLoadRejected(World, id, "notfound"))

\* --- events of the audio element
\* 'loadstart' for the source assigned last: activateMediaSession
LoadStartBy(b) == SetMediaSessionState([b EXCEPT !.au.ls = FALSE], "paused")

LoadStart ==
  /\ audio.ls
  /\ Event("loadstart", LoadStartBy(World))

\* 'loadedmetadata' and 'loadeddata' for the source assigned last: the
\* manager's own 'loadedmetadata' listener pushes the metadata, then the
\* listeners of the loads in flight run.
LoadedDataBy(b) ==
  LET w0 == [b EXCEPT !.au.net = "loaded",
                      !.au.duration = MediaDuration(b.au.src),
                      !.ll = <<>>]
  IN RunLoadListeners(UpdateMediaSessionMetadata(w0), b.ll, "ok")

LoadedData ==
  /\ audio.net = "loading" /\ ~audio.ls
  /\ Event("loadeddata", LoadedDataBy(World))

\* 'error' for the source assigned last: pending play promises are rejected
LoadErrorBy(b) ==
  LET w0 == RejectPlayPromises([b EXCEPT !.au.net = "error", !.ll = <<>>])
  IN RunLoadListeners(w0, b.ll, "decode")

LoadError ==
  /\ audio.net = "loading" /\ ~audio.ls
  /\ Event("error", LoadErrorBy(World))

\* 'play', queued by play() on an element that was paused: the manager
\* writes 'playing'
PlayEventBy(b) == SetMediaSessionState([b EXCEPT !.au.pl = FALSE], "playing")

\* Queued events fire in the order they were queued: 'loadstart' first (the
\* load algorithm drops what was queued before it); of 'play' and the task
\* of pause(), the one whose call came first, which is 'play' exactly when
\* the element ended up paused.
PlayEvent ==
  /\ audio.pl /\ ~audio.ls /\ (audio.tu => audio.paused)
  /\ Event("playEvent", PlayEventBy(World))

\* The element can play: the pending promises of play() resolve
PlayResolved ==
  /\ audio.net = "loaded" /\ ~audio.paused /\ playPromises # <<>>
  /\ ~audio.pl
  /\ Event("playing", ResolvePlayPromises(World))

\* The listeners of 'timeupdate' in the order they were registered: the
\* manager's updatePositionState, then the one the hook registered with
\* onTimeUpdate
TimeUpdateBy(b, rejects) ==
  LET w0 == UpdatePositionState(b, rejects)
  IN [w0 EXCEPT !.st = TimeUpdateState(@, w0.au)]

\* Playback advances by one unit and 'timeupdate' fires
TickBy(b, rejects) ==
  TimeUpdateBy([b EXCEPT !.au.currentTime = @ + 1], rejects)

Tick(rejects) ==
  /\ audio.net = "loaded" /\ ~audio.paused /\ playPromises = <<>>
  /\ ~audio.pl
  /\ audio.currentTime < audio.duration
  /\ Event("timeupdate", TickBy(World, rejects))

\* The task queued by pause() or by a seek runs: 'timeupdate' fires and,
\* after pause(), 'pause', on which the manager writes 'paused'.
QueuedTimeUpdateBy(b, rejects) ==
  LET w0 == TimeUpdateBy([b EXCEPT !.au.tu = FALSE], rejects)
  IN IF w0.au.paused THEN SetMediaSessionState(w0, "paused") ELSE w0

QueuedTimeUpdate(rejects) ==
  /\ audio.tu /\ ~audio.ls /\ (audio.pl => ~audio.paused)
  /\ Event("timeupdate", QueuedTimeUpdateBy(World, rejects))

\* Playback reaches the end: 'timeupdate' fires, the element pauses itself,
\* then 'ended' fires: the manager's own listener writes 'paused' and every
\* listener registered with onEnded runs.
EndedBy(b, hs, picks, rejects) ==
  LET w0 == SetMediaSessionState(
              [TimeUpdateBy(b, rejects) EXCEPT !.au.paused = TRUE], "paused")
  IN RunEndedHandlers(w0, hs, picks, 1)

Ended(picks, rejects) ==
  /\ audio.net = "loaded" /\ ~audio.paused /\ playPromises = <<>>
  /\ ~audio.pl
  /\ audio.currentTime = audio.duration
  /\ LET w == EndedBy(Fresh, endedHandlers, picks, rejects)
     IN /\ Commit(w)
        /\ lastOp' = Op("ended", NoTrack, <<>>, state.currentIndex, w)
        /\ task' = "ended"
        /\ UNCHANGED left

\* Arguments the UI passes: any index, valid or not
Indexes == -1..MaxList

\* The lists the queue scenarios hand over
QueueLists == {<<>>, <<RemoteTrack, DeviceTrack>>, <<DeviceTrack, RemoteTrack>>}

\* The draws of Math.random for a list of listeners, one per listener
RECURSIVE PickSeqs(_)
PickSeqs(hs) ==
  IF hs = <<>> THEN {<<>>}
  ELSE {<<r>> \o rest : r \in Draws(Head(hs)), rest \in PickSeqs(Tail(hs))}

EndedEvent(rejects) == \E picks \in PickSeqs(endedHandlers) : Ended(picks, rejects)

\* The events of the store and of the element; R holds what
\* setPositionState may do on a 'timeupdate': FALSE = accept, TRUE = throw
EventsWith(R) ==
  \/ \E id \in 1..MaxCalls : LookupHit(id)
  \/ \E id \in 1..MaxCalls : LookupMiss(id)
  \/ LoadStart
  \/ LoadedData
  \/ LoadError
  \/ PlayEvent
  \/ PlayResolved
  \/ \E rejects \in R : Tick(rejects)
  \/ \E rejects \in R : QueuedTimeUpdate(rejects)
  \/ \E rejects \in R : EndedEvent(rejects)

\* The events with a platform that accepts every position
Events == EventsWith({FALSE})

\* Every operation, over the queue scenarios' lists
Next ==
  \/ \E t \in Tracks \cup {NoTrack} : Play(t)
  \/ \E t \in Tracks : LoadTrack(t)
  \/ Pause
  \/ \E tracks \in QueueLists, i \in Indexes : SetPlaylist(tracks, i)
  \/ \E l \in QueueLists, i \in Indexes : PlayFromList(l, i)
  \/ \E r \in Draws(Snapshot(state)) : NextTrack(r)
  \/ \E r \in Draws(Snapshot(state)) : PreviousTrack(r)
  \/ ToggleShuffle
  \/ ToggleRepeat
  \/ Events

Init == Start(MaxOps)

Spec == Init /\ [][Next]_vars

\* The engine alone: play, loadTrack and pause on single tracks
NextLoad ==
  \/ \E t \in Tracks \cup {NoTrack} : Play(t)
  \/ \E t \in Tracks : LoadTrack(t)
  \/ Pause
  \/ Events

SpecLoad == Start(MaxLoadOps) /\ [][NextLoad]_vars

\* A request to the store is pending / completes
LookupDue == \E id \in 1..MaxCalls : calls[id].pc = "lookup"

LookupDone == LookupDue /\ task' \in {"lookupHit", "lookupMiss"}

\* The element owes 'loadeddata' or 'error' for the source assigned to it /
\* fires one of them
LoadSignalDue == audio.net = "loading" /\ ~audio.ls

LoadSignal == LoadSignalDue /\ task' \in {"loadeddata", "error"}

\* The engine alone with events that are delivered: the element fires
\* 'loadstart', then 'loadeddata' or 'error' for the source assigned to it,
\* and a request to the store completes.  The last two conjuncts are
\* WF_vars(LoadedData \/ LoadError) and
\* WF_vars(\E id \in 1..MaxCalls : LookupHit(id) \/ LookupMiss(id)) with
\* ENABLED written out as the guard of the actions.
SpecLoadFair ==
  /\ SpecLoad
  /\ WF_vars(LoadStart)
  /\ ([]<>~LoadSignalDue \/ []<><<LoadSignal>>_vars)
  /\ ([]<>~LookupDue \/ []<><<LookupDone>>_vars)

\* The queue controller over the queue scenarios' lists
NextQueue ==
  \/ \E tracks \in QueueLists, i \in Indexes : SetPlaylist(tracks, i)
  \/ \E l \in QueueLists, i \in Indexes : PlayFromList(l, i)
  \/ \E r \in Draws(Snapshot(state)) : NextTrack(r)
  \/ \E r \in Draws(Snapshot(state)) : PreviousTrack(r)
  \/ ToggleShuffle
  \/ ToggleRepeat
  \/ Events

SpecQueue == Start(MaxQueueOps) /\ [][NextQueue]_vars

\* playFromList over every list of at most MaxList tracks
NextLists ==
  \/ \E l \in TrackLists, i \in Indexes : PlayFromList(l, i)
  \/ Events

SpecLists == Start(MaxListOps) /\ [][NextLists]_vars

\* A queue of a remote and a device track played with repeat
NextRepeat ==
  \/ \E i \in {0, 1} : SetPlaylist(<<RemoteTrack, DeviceTrack>>, i)
  \/ ToggleRepeat
  \/ Events

SpecRepeat == Start(MaxRepeatOps) /\ [][NextRepeat]_vars

\* Positions handed to seekTo: below 0, within and beyond the media
SeekTargets == {-1, 0, 1, 3}

\* The platform's media controls over a loaded queue
NextPlatform ==
  \/ \E i \in {0, 1} : SetPlaylist(<<RemoteTrack, DeviceTrack>>, i)
  \/ PlatformPlay
  \/ PlatformPause
  \/ \E s \in SeekTargets : PlatformSeekTo(s)
  \/ \E r \in Draws(Snapshot(state)) : PlatformNext(r)
  \/ \E r \in Draws(Snapshot(state)) : PlatformPrevious(r)
  \/ Events

SpecPlatform == Start(MaxPlatformOps) /\ [][NextPlatform]_vars

\* Engine and queue operations in a browser with or without the Media
\* Session API
NextShim ==
  \/ \E t \in Tracks : Play(t)
  \/ Pause
  \/ \E i \in {0, 1} : SetPlaylist(<<RemoteTrack, DeviceTrack>>, i)
  \/ \E r \in Draws(Snapshot(state)) : NextTrack(r)
  \/ Events

SpecShim == (\E ms \in BOOLEAN : StartWith(MaxShimOps, ms)) /\ [][NextShim]_vars

\* Seeking in a track that is loaded, playing or absent
NextSeek ==
  \/ \E t \in Tracks : Play(t)
  \/ Pause
  \/ \E s \in SeekTargets : SeekTo(s)
  \/ Events

SpecSeek == Start(MaxSeekOps) /\ [][NextSeek]_vars

\* Volumes handed to setVolume: below, within and above the range
Volumes == {-VolumeUnit, 0, 3, VolumeUnit, 2 * VolumeUnit}

\* The volume controls, with and without a track playing
NextVolume ==
  \/ \E t \in Tracks : Play(t)
  \/ \E v \in Volumes : SetVolume(v)
  \/ ToggleMute
  \/ Events

SpecVolume == Start(MaxVolumeOps) /\ [][NextVolume]_vars

\* next() on a queue of two tracks with shuffle and repeat set or not
NextShuffle ==
  \/ SetPlaylist(<<RemoteTrack, DeviceTrack>>, 1)
  \/ ToggleShuffle
  \/ ToggleRepeat
  \/ \E r \in Draws(Snapshot(state)) : NextTrack(r)
  \/ Events

SpecShuffle == Start(MaxShuffleOps) /\ [][NextShuffle]_vars

\* Start indexes handed to setPlaylist: below, within and beyond the list
StartIndexes == -1..(MaxList + 1)

\* previous() on a queue of two tracks, with and without repeat
NextPrevious ==
  \/ \E i \in StartIndexes : SetPlaylist(<<RemoteTrack, DeviceTrack>>, i)
  \/ ToggleRepeat
  \/ \E r \in Draws(Snapshot(state)) : PreviousTrack(r)
  \/ Events

SpecPrevious == Start(MaxPreviousOps) /\ [][NextPrevious]_vars

\* Tracks of every source kind
SourceTracks == Tracks \cup {LocalTrack}

\* play and loadTrack over tracks of every source kind
NextSource ==
  \/ \E t \in SourceTracks : Play(t)
  \/ \E t \in SourceTracks : LoadTrack(t)
  \/ Events

SpecSource == Start(MaxSourceOps) /\ [][NextSource]_vars

\* Every operation of the hook on queues of two tracks
NextFrame ==
  \/ \E t \in Tracks : Play(t)
  \/ Pause
  \/ \E s \in SeekTargets : SeekTo(s)
  \/ \E v \in Volumes : SetVolume(v)
  \/ ToggleMute
  \/ \E i \in {0, 1} : SetPlaylist(<<RemoteTrack, DeviceTrack>>, i)
  \/ \E i \in {0, 1} : PlayFromList(<<DeviceTrack, RemoteTrack>>, i)
  \/ \E r \in Draws(Snapshot(state)) : NextTrack(r)
  \/ \E r \in Draws(Snapshot(state)) : PreviousTrack(r)
  \/ ToggleShuffle
  \/ ToggleRepeat
  \/ Events

SpecFrame == Start(MaxFrameOps) /\ [][NextFrame]_vars

\* Playback with a platform that may reject any position push
NextPosition ==
  \/ \E t \in Tracks : Play(t)
  \/ Pause
  \/ \E s \in SeekTargets : SeekTo(s)
  \/ EventsWith(BOOLEAN)

SpecPosition == Start(MaxPositionOps) /\ [][NextPosition]_vars

\* ------------------------------------------------------------- the claims
\* The loadTrack invocations (direct or made by play) that settled in the
\* last task
SettledLoads == {k \in 1..Len(settled) : settled[k].fn = "loadTrack"}

\* settled[k] is a loadTrack that completed while no other load was in
\* flight: no other one completed with it and none awaits the store
LoadedAlone(k) ==
  /\ k \in SettledLoads
  /\ settled[k].load = "ok"
  /\ SettledLoads = {k}
  /\ \A i \in 1..MaxCalls : calls[i].pc # "lookup"

\* C1: stale-load protection: once every invocation has settled, the track
\* of the loadTrack started last, when that load succeeded, is currentTrack;
\* the result of a load started before it never overwrites it.
C1_StaleLoadDiscarded ==
  (Quiescent /\ lastLoad.status = "ok") => state.currentTrack = lastLoad.track

\* C2: when loadTrack(T) completes successfully with no other load in
\* flight, currentTrack is T, currentTime is 0 and duration is the duration
\* the output reports for T's source.
C2_LoadSuccess ==
  \A k \in 1..Len(settled) :
    LoadedAlone(k) =>
      /\ state.currentTrack = settled[k].track
      /\ state.currentTime = 0
      /\ state.duration = audio.duration
      /\ audio.duration = MediaDuration(settled[k].track)

\* A load of the device track completed alone after playback had advanced
C2_Witness ==
  \E k \in 1..Len(settled) :
    /\ LoadedAlone(k)
    /\ settled[k].track = DeviceTrack
    /\ state.currentTrack = DeviceTrack
    /\ lastOp.name = "loadTrack"
    /\ state.isPlaying

\* C3: a loadTrack of a device track whose blob is missing from the store
\* rejects, leaves currentTrack set to that track and isPlaying false.
C3_MissingBlobRejects ==
  \A k \in 1..Len(settled) :
    (settled[k].fn = "loadTrack" /\ settled[k].load = "notfound") =>
      /\ settled[k].result = "rejected"
      /\ state.currentTrack = settled[k].track
      /\ ~state.isPlaying

\* C4: when the load made by play(T) fails, play fails, no play command is
\* issued to the output, currentTrack is T and isPlaying is false.
C4_FailedPlay ==
  /\ \A i \in 1..MaxCalls :
       (calls[i].kind = "play" /\ calls[i].load \in LoadFailures) =>
         calls[i].pc # "starting"
  /\ \A k \in 1..Len(settled) :
       (settled[k].fn = "play" /\ settled[k].load \in LoadFailures) =>
         /\ settled[k].result = "rejected"
         /\ state.currentTrack = settled[k].track
         /\ ~state.isPlaying

\* The last index of the queue is current, without shuffle or repeat
AtQueueEnd(st) ==
  /\ ~st.shuffle /\ ~st.repeat
  /\ Len(st.playlist) >= 1
  /\ st.currentIndex = Len(st.playlist) - 1

\* C5: in every reachable state currentIndex is within [-1, len - 1].
C5_IndexInRange ==
  state.currentIndex \in -1..(Len(state.playlist) - 1)

\* C6: an 'ended' event at the last index of a non-repeating, non-shuffling
\* queue leaves the index unchanged, triggers no load and no play, and
\* leaves isPlaying false.
C6_EndedAtQueueEnd ==
  [][(task' = "ended" /\ AtQueueEnd(state)) =>
       /\ state'.currentIndex = state.currentIndex
       /\ lastOp'.plays = <<>>
       /\ cmds' = <<>>
       /\ ~state'.isPlaying]_vars

\* C7: one 'ended' event evaluates nextTrack exactly once, against the
\* current queue state, and so triggers at most one play.
C7_OneNextPerEnded ==
  task = "ended" => (lastOp.evals = 1 /\ Len(lastOp.plays) <= 1)

\* C8: next() at the last index of a queue without shuffle and repeat
\* changes nothing and triggers no load and no play.
C8_NextAtQueueEnd ==
  [][(task' = "next" /\ AtQueueEnd(state)) =>
       /\ state' = state
       /\ audio' = audio
       /\ calls' = calls
       /\ lastOp'.plays = <<>>
       /\ cmds' = <<>>]_vars

\* next() was called at the last index of a two-track queue and did nothing
C8_Witness ==
  /\ task = "next"
  /\ AtQueueEnd(state)
  /\ Len(state.playlist) = 2
  /\ lastOp.plays = <<>>
  /\ cmds = <<>>

\* C9: with repeat and without shuffle, an 'ended' event at the last index
\* of a queue of at least two tracks sets the index to 0, and once the loads
\* it started have completed the first track is currentTrack and isPlaying
\* is true.
C9_EndedWraps ==
  ( /\ lastOp.name = "ended"
    /\ state.repeat /\ ~state.shuffle
    /\ Len(state.playlist) >= 2
    /\ lastOp.index = Len(state.playlist) - 1
    /\ Quiescent
    /\ ~lastOp.failed )
  => /\ state.currentIndex = 0
     /\ state.currentTrack = state.playlist[1]
     /\ state.isPlaying

\* C10: playFromList(list, i) with a valid i makes the queue the elements
\* of list from i to the end, in order, sets currentIndex to 0 and triggers
\* play of list[i].
C10_PlayFromList ==
  (task = "playFromList" /\ 0 <= lastOp.index /\ lastOp.index < Len(lastOp.list)) =>
    /\ Len(state.playlist) = Len(lastOp.list) - lastOp.index
    /\ \A k \in 1..Len(state.playlist) :
         state.playlist[k] = lastOp.list[lastOp.index + k]
    /\ state.currentIndex = 0
    /\ lastOp.plays = <<lastOp.list[lastOp.index + 1]>>

\* playFromList ran on the second element of a list of two different tracks
C10_Witness ==
  /\ task = "playFromList"
  /\ lastOp.index = 1
  /\ Len(lastOp.list) = 2
  /\ lastOp.list[1] # lastOp.list[2]
  /\ state.playlist = <<lastOp.list[2]>>
  /\ state.currentIndex = 0

\* A write to the media session that shows what the state already holds
PushFollowsState(p) ==
  CASE p.what = "metadata" -> p.currentTrack = p.value
    [] p.what = "playbackState" -> p.isPlaying = (p.value = "playing")
    [] OTHER -> TRUE

\* C11: every write to the media session (metadata on a successful load,
\* playback state on play / pause) comes after the state change of the same
\* event: when 'playing' / 'paused' / new metadata is written, isPlaying /
\* currentTrack already has the corresponding value.
C11_PushAfterMutation ==
  \A k \in 1..Len(pushes) : PushFollowsState(pushes[k])

\* C12: a command of the platform's media controls leaves the playback
\* state and the queue as the corresponding UI operation, called in the same
\* state, leaves them; after a platform pause isPlaying is false, after a
\* platform seek currentTime is the target.
C12_PlatformAsUI ==
  [][/\ task' = "mediaPlay" =>
          state' = HookPlay(Fresh, Snapshot(state), NoTrack).st
     /\ task' = "mediaPause" => state' = PauseBy(Fresh).st
     /\ task' = "mediaSeekTo" => state' = SeekToBy(Fresh, lastOp'.index).st
     /\ task' = "mediaNext" =>
          state' = NextTrackBy(Fresh, Snapshot(state), lastOp'.index).st
     /\ task' = "mediaPrevious" =>
          state' = PreviousTrackBy(Fresh, Snapshot(state), lastOp'.index).st]_vars

\* The world as a manager without the Media Session API finds it
Unavailable(w) == [w EXCEPT !.ms = FALSE]

\* The engine's part of the state becomes that of the world w
EngineBecomes(w) ==
  /\ w.ok
  /\ state' = w.st
  /\ audio' = w.au
  /\ calls' = w.calls
  /\ loadListeners' = w.ll
  /\ playPromises' = w.pp
  /\ endedHandlers' = Rerender(endedHandlers, state, w.st)

\* A step of the engine as it runs when the capability is unavailable
UnavailableStep ==
  \/ \E t \in Tracks : EngineBecomes(HookPlay(Unavailable(Fresh), Snapshot(state), t))
  \/ EngineBecomes(PauseBy(Unavailable(Fresh)))
  \/ \E i \in {0, 1} : EngineBecomes(
       SetPlaylistBy(Unavailable(Fresh), Snapshot(state), <<RemoteTrack, DeviceTrack>>, i))
  \/ \E r \in Draws(Snapshot(state)) :
       EngineBecomes(NextTrackBy(Unavailable(Fresh), Snapshot(state), r))
  \/ \E id \in 1..MaxCalls :
       /\ calls[id].pc = "lookup"
       /\ \/ EngineBecomes(HookLoadTrackBlob(Unavailable(World), id))
          \/ EngineBecomes(HookLoadRejected(Unavailable(World), id, "notfound"))
  \/ audio.ls /\ EngineBecomes(LoadStartBy(Unavailable(World)))
  \/ /\ audio.net = "loading" /\ ~audio.ls
     /\ \/ EngineBecomes(LoadedDataBy(Unavailable(World)))
        \/ EngineBecomes(LoadErrorBy(Unavailable(World)))
  \/ /\ audio.pl /\ ~audio.ls /\ (audio.tu => audio.paused)
     /\ EngineBecomes(PlayEventBy(Unavailable(World)))
  \/ /\ audio.net = "loaded" /\ ~audio.paused /\ playPromises # <<>> /\ ~audio.pl
     /\ EngineBecomes(ResolvePlayPromises(Unavailable(World)))
  \/ /\ audio.net = "loaded" /\ ~audio.paused /\ playPromises = <<>> /\ ~audio.pl
     /\ \/ /\ audio.currentTime < audio.duration
           /\ EngineBecomes(TickBy(Unavailable(World), FALSE))
        \/ /\ audio.currentTime = audio.duration
           /\ \E picks \in PickSeqs(endedHandlers) :
                EngineBecomes(EndedBy(Unavailable(Fresh), endedHandlers, picks, FALSE))
  \/ /\ audio.tu /\ ~audio.ls /\ (audio.pl => ~audio.paused)
     /\ EngineBecomes(QueuedTimeUpdateBy(Unavailable(World), FALSE))

\* C13: the playback state and the queue evolve the same way whether or not
\* the platform's media-control capability is available: every step is a
\* step of the engine without the capability, and without it nothing is
\* ever written to the platform surface.
C13_ShimSameEngine ==
  [][/\ UnavailableStep
     /\ ~hasMediaSession => (session' = InitialSession /\ pushes' = <<>>)]_vars

\* Without the capability a track was loaded, played and paused again
C13_Witness ==
  /\ ~hasMediaSession
  /\ lastOp.name = "pause"
  /\ state.currentTrack # NoTrack
  /\ audio.net = "loaded" /\ audio.paused
  /\ session = InitialSession

\* The output is playing: media is loaded, the element is not paused and no
\* play() awaits its start
OutputPlaying ==
  audio.net = "loaded" /\ ~audio.paused /\ playPromises = <<>>

\* C14: whenever play(track?) is invoked while the output is playing, a
\* pause is the first command that call issues to the output, before any
\* load or play, also when the requested track is the loaded one.
C14_PauseFirst ==
  [][(task' = "play" /\ OutputPlaying) => (cmds' # <<>> /\ cmds'[1] = "pause")]_vars

\* C15: in every reachable state 0 <= currentTime <= duration, also right
\* after seekTo(s) for a negative s or an s beyond the duration.
C15_PositionInRange ==
  0 <= state.currentTime /\ state.currentTime <= state.duration

\* C16: after setVolume(v) the volume of the state is min(1, max(0, v)) and
\* the output was handed the same value: setVolume(-1) gives 0, setVolume(2)
\* gives 1.
C16_VolumeClamped ==
  task = "setVolume" =>
    LET v == lastOp.index
        expected == IF v < 0 THEN 0 ELSE IF v > VolumeUnit THEN VolumeUnit ELSE v
    IN state.volume = expected /\ audio.volume = expected

\* setVolume(2) ran after the volume had been something else
C16_Witness ==
  /\ task = "setVolume"
  /\ lastOp.index = 2 * VolumeUnit
  /\ state.volume = VolumeUnit /\ audio.volume = VolumeUnit
  /\ left = MaxVolumeOps - 2

\* C17: in every state reached by setVolume and toggleMute calls, a volume
\* of 0 implies muted.
C17_ZeroIsMuted ==
  state.volume = 0 => state.isMuted

\* C18: toggleMute from an unmuted state with volume v mutes: the output's
\* volume is 0 and the state still holds v; a second toggleMute right after
\* it unmutes: the state holds v, muted is false and the output's volume is
\* v again.
C18_MuteRoundTrip ==
  [][/\ (task' = "toggleMute" /\ ~state.isMuted) =>
          /\ state'.isMuted
          /\ state'.volume = state.volume
          /\ audio'.volume = 0
     /\ (task' = "toggleMute" /\ task = "toggleMute" /\ state.isMuted) =>
          /\ ~state'.isMuted
          /\ state'.volume = state.volume
          /\ audio'.volume = state.volume]_vars

\* toggleMute ran twice in a row from an unmuted state with volume 0.3
C18_Witness ==
  /\ task = "toggleMute"
  /\ lastOp.again
  /\ ~state.isMuted
  /\ state.volume = 3 /\ audio.volume = 3

\* C19: pause() is idempotent: a second pause() right after a first leaves
\* the playback state and the output as the first left them, with isPlaying
\* false after each, also when nothing is loaded.
C19_PauseIdempotent ==
  [][/\ task' = "pause" => ~state'.isPlaying
     /\ (task' = "pause" /\ task = "pause") =>
          (state' = state /\ audio' = audio /\ settled' = <<>>)]_vars

\* pause() ran twice in a row on a track that had been playing
C19_Witness ==
  /\ task = "pause"
  /\ lastOp.again
  /\ audio.net = "loaded" /\ audio.paused /\ audio.tu
  /\ ~state.isPlaying

\* The commands issued to the output during the last task
Issued == {cmds[k] : k \in 1..Len(cmds)}

\* C20: a failed load never advances the queue: in the task in which a load
\* fails (blob missing or 'error' of the element) the queue and its index
\* stay as they are, no source is loaded and the output is not started.
C20_NoAdvanceOnFailure ==
  [][task' \in {"error", "lookupMiss"} =>
       /\ state'.currentIndex = state.currentIndex
       /\ state'.playlist = state.playlist
       /\ "load" \notin Issued'
       /\ audio.paused => audio'.paused]_vars

\* An operation whose load failed settled in the last task
FailedOperationCompleted ==
  \E k \in 1..Len(settled) : settled[k].load \in LoadFailures

\* C21: once a play / loadTrack whose load failed (blob missing or 'error'
\* of the element) has completed, the playback state written last to the
\* media session is 'paused', whatever was playing before.
C21_PausedAfterFailure ==
  (hasMediaSession /\ FailedOperationCompleted) => session.playbackState = "paused"

\* C22: no failed operation leaves the engine stuck: a play(T') called
\* once a failed loadTrack / play has completed, for a track T' whose source
\* resolves and decodes, ends with currentTrack = T' and isPlaying true.
C22_RecoversAfterFailure ==
  ( /\ lastOp.name = "play" /\ lastOp.track # NoTrack
    /\ lastOp.recovering /\ ~lastOp.failed
    /\ \E k \in 1..Len(settled) :
         settled[k].fn = "play" /\ settled[k].track = lastOp.track )
  => (state.currentTrack = lastOp.track /\ state.isPlaying)

\* C23: in every reachable state an empty queue implies that currentTrack
\* is null.
C23_EmptyQueueNoTrack ==
  state.playlist = <<>> => state.currentTrack = NoTrack

\* The index of the last UI call is one of its list
ValidIndex == 0 <= lastOp.index /\ lastOp.index < Len(lastOp.list)

C25_ShuffleNext ==
  [][(task' = "next" /\ state.shuffle /\ state.playlist # <<>>) =>
       /\ state'.currentIndex \in 0..(Len(state.playlist) - 1)
       /\ state'.currentIndex = lastOp'.index
       /\ lastOp'.plays = <<At(state.playlist, state'.currentIndex)>>
       /\ \A r \in 0..(Len(state.playlist) - 1) :
            LET w == NextTrackBy(Fresh, Snapshot(state), r)
            IN w.st.currentIndex = r /\ w.plays = <<At(state.playlist, r)>>]_vars

\* next() under shuffle and repeat drew the last index again while it was
\* the current one
C25_Witness ==
  /\ task = "next"
  /\ state.shuffle /\ state.repeat
  /\ Len(state.playlist) = 2
  /\ state.currentIndex = 1 /\ lastOp.index = 1
  /\ lastOp.plays = <<DeviceTrack>>
  /\ left = 0

\* C26: without shuffle, previous() on a non-empty queue moves the index
\* to index - 1 when index > 0; at index 0 without repeat the index stays 0;
\* the resulting index is always within [0, len - 1].
C26_PreviousClamps ==
  [][(task' = "previous" /\ ~state.shuffle /\ state.playlist # <<>>) =>
       /\ state.currentIndex > 0 => state'.currentIndex = state.currentIndex - 1
       /\ (state.currentIndex = 0 /\ ~state.repeat) => state'.currentIndex = 0
       /\ state'.currentIndex \in 0..(Len(state.playlist) - 1)]_vars

\* C27: swap-then-revoke: an object URL is revoked only after a new URL
\* has been assigned to the output, and never while it is the one assigned
\* to the output.
C27_SwapThenRevoke ==
  [][\A k \in 1..Len(urlOps') :
       urlOps'[k].op = "revokeObjectURL" =>
         /\ \E j \in 1..(k - 1) : urlOps'[j].op = "assign"
         /\ urlOps'[k].url # audio'.url]_vars

\* C28: the queue is changed by setPlaylist and playFromList only: next,
\* previous, 'ended', toggleShuffle, toggleRepeat, play, pause, seekTo,
\* setVolume, toggleMute, 'timeupdate' and every other event leave its
\* members and their order as they are.
C28_QueueFrame ==
  [][task' \notin {"setPlaylist", "playFromList"} =>
       state'.playlist = state.playlist]_vars

\* 'ended' moved a queue of two tracks on to its second track
C28_Witness ==
  /\ task = "ended"
  /\ state.playlist = <<RemoteTrack, DeviceTrack>>
  /\ lastOp.index = 0 /\ state.currentIndex = 1
  /\ lastOp.plays # <<>>

\* setPositionState threw during the last task
PositionRejected ==
  \E k \in 1..Len(pushes) :
    pushes[k].what = "positionState" /\ pushes[k].value = "rejected"

\* Engine, element and media session become those of the world w
AllBecomes(w) ==
  /\ EngineBecomes(w)
  /\ session' = w.session
  /\ currentMetadata' = w.meta
  /\ cmds' = w.cmds
  /\ settled' = w.settled

\* A 'timeupdate' (alone or before 'ended') whose position push is accepted
AcceptedTimeUpdate ==
  \/ /\ audio.tu /\ ~audio.ls /\ (audio.pl => ~audio.paused)
     /\ AllBecomes(QueuedTimeUpdateBy(World, FALSE))
  \/ /\ audio.net = "loaded" /\ ~audio.paused /\ playPromises = <<>> /\ ~audio.pl
     /\ \/ /\ audio.currentTime < audio.duration
           /\ AllBecomes(TickBy(World, FALSE))
        \/ /\ audio.currentTime = audio.duration
           /\ \E picks \in PickSeqs(endedHandlers) :
                AllBecomes(EndedBy(Fresh, endedHandlers, picks, FALSE))

\* C29: a position push that fails on a 'timeupdate' is swallowed: the
\* event's update of currentTime, duration and isPlaying is applied all the
\* same, and engine, output and media session are left exactly as an
\* accepted push leaves them, so that later events find nothing changed.
C29_PositionPushSwallowed ==
  [][PositionRejected' =>
       /\ task' \in {"timeupdate", "ended"}
       /\ task' = "timeupdate" => state' = TimeUpdateState(state, audio')
       /\ AcceptedTimeUpdate]_vars

\* Playback advanced by one unit while the platform rejected the position
C29_Witness ==
  /\ PositionRejected
  /\ task = "timeupdate"
  /\ state.isPlaying /\ state.currentTime = 1 /\ state.duration = MediaDuration(DeviceTrack)
  /\ audio.currentTime = 1

\* The tracks whose source kind is 'device' or 'local'
DeviceLocalTracks == {DeviceTrack, LocalTrack}

\* C30: the store is consulted exactly for tracks whose source kind is
\* 'device' or 'local': the URL assigned to the output for such a track is
\* the object URL made of the blob stored under track.id, after a lookup
\* for that id, never the track's fileUrl; for any other track the fileUrl
\* is assigned as it is, without a lookup.
C30_SourceResolution ==
  [][/\ \A k \in 1..Len(urlOps') :
          urlOps'[k].op = "getAudioBlob" => urlOps'[k].id \in DeviceLocalTracks
     /\ \A k \in 1..Len(urlOps') :
          urlOps'[k].op = "assign" =>
            LET t == currentMetadata'
            IN IF t \in DeviceLocalTracks
                 THEN /\ urlOps'[k].url = ObjectURL(t)
                      /\ k > 1 /\ urlOps'[k - 1] = UrlOp("createObjectURL", ObjectURL(t), t)
                      /\ task' = "lookupHit"
                      /\ \E id \in 1..MaxCalls :
                           calls[id].pc = "lookup" /\ calls[id].track = t
                 ELSE /\ urlOps'[k].url = FileUrl(t)
                      /\ task' \in {"play", "loadTrack"}
                      /\ \A j \in 1..Len(urlOps') : urlOps'[j].op # "getAudioBlob"
     /\ \A id \in 1..MaxCalls :
          (calls[id].pc # "lookup" /\ calls'[id].pc = "lookup") =>
            /\ calls'[id].track \in DeviceLocalTracks
            /\ urlOps' = <<UrlOp("getAudioBlob", NoUrl, calls'[id].track)>>
     /\ \A id \in 1..MaxCalls :
          (calls[id].kind = "none" /\ calls'[id].pc \in {"lookup", "loading"}) =>
            (calls'[id].pc = "lookup" <=> calls'[id].track \in DeviceLocalTracks)]_vars

\* The blob of an uploaded ('local') track was found and its object URL
\* handed to the output while a remote track was loaded
C30_Witness ==
  /\ task = "lookupHit"
  /\ audio.url = ObjectURL(LocalTrack)
  /\ urlOps = <<UrlOp("createObjectURL", ObjectURL(LocalTrack), LocalTrack),
                UrlOp("assign", ObjectURL(LocalTrack), NoTrack)>>
  /\ state.currentTrack = RemoteTrack

\* No loadTrack awaits the store or the element
NoLoadInFlight ==
  \A i \in 1..MaxCalls : calls[i].pc \notin {"lookup", "loading"}

\* C31: whenever no load is in flight, currentTrack is the track whose
\* source is assigned to the output, and the metadata handed last to the
\* manager are those of the same track, under every interleaving of
\* loadTrack / play calls and after failed loads too.
C31_TrackIsAssignedSource ==
  NoLoadInFlight =>
    (state.currentTrack = audio.src /\ currentMetadata = state.currentTrack)

\* C32: after pause() the output stays paused and isPlaying stays false
\* until the next UI operation or platform command: a play(track) that was
\* called before the pause and still awaits its load neither starts the
\* output nor sets isPlaying once the load completes.
C32_PauseHolds ==
  lastOp.name = "pause" => (audio.paused /\ ~state.isPlaying)

\* C33: after any sequence of setPlaylist, playFromList, next and previous
\* calls whose loads succeed or fail, whenever the queue is non-empty, the
\* index is one of the queue and no operation is in flight, currentTrack is
\* playlist[currentIndex].
C33_TrackAtIndex ==
  ( /\ Quiescent
    /\ state.playlist # <<>>
    /\ 0 <= state.currentIndex /\ state.currentIndex < Len(state.playlist) )
  => state.currentTrack = At(state.playlist, state.currentIndex)

\* C34: in every reachable state, the initial one included, the volume of
\* the output is 0 when isMuted is true and the volume of the state when it
\* is false.
C34_EffectiveVolume ==
  audio.volume = IF state.isMuted THEN 0 ELSE state.volume

\* C35: handling a 'timeupdate' sets currentTime, duration and isPlaying
\* to the output's position, duration and playing status and leaves
\* currentTrack, playlist, currentIndex, volume, isMuted, shuffle and repeat
\* unchanged; so after a pause or play issued by the platform isPlaying
\* agrees with the output no later than the next 'timeupdate'.
C35_TimeUpdateSyncs ==
  [][task' = "timeupdate" =>
       /\ state'.currentTime = audio'.currentTime
       /\ state'.duration = audio'.duration
       /\ state'.isPlaying = ~audio'.paused
       /\ state'.currentTrack = state.currentTrack
       /\ state'.playlist = state.playlist
       /\ state'.currentIndex = state.currentIndex
       /\ state'.volume = state.volume
       /\ state'.isMuted = state.isMuted
       /\ state'.shuffle = state.shuffle
       /\ state'.repeat = state.repeat
       /\ lastOp'.name \in {"mediaPause", "mediaPlay"} =>
            (state'.isPlaying <=> ~audio'.paused)]_vars

\* The 'timeupdate' that follows a pause issued by the platform found the
\* second track of the queue playing and cleared isPlaying
C35_Witness ==
  /\ task = "timeupdate"
  /\ lastOp.name = "mediaPause"
  /\ audio.paused /\ ~audio.tu /\ ~state.isPlaying
  /\ state.currentTrack = DeviceTrack /\ state.currentIndex = 1
  /\ session.playbackState = "paused"

\* Invocation id is inside loadTrack: it awaits the store or the element
InLoadTrack(id) == calls[id].pc \in {"lookup", "loading"}

\* C36: when the events of the output are delivered, every loadTrack call
\* settles in the end, also one whose source was replaced on the output by
\* a later loadTrack before its own 'loadeddata' or 'error' arrived.
C36_LoadTrackSettles ==
  \A id \in 1..MaxCalls : InLoadTrack(id) ~> ~InLoadTrack(id)

\* One 'loadeddata' settled two loadTrack calls for different tracks: the
\* source of the first had been replaced by that of the second
C36_Witness ==
  /\ task = "loadeddata"
  /\ \E j, k \in 1..Len(settled) :
       /\ j < k
       /\ settled[j].fn = "loadTrack" /\ settled[k].fn = "loadTrack"
       /\ settled[j].track # settled[k].track
       /\ settled[j].result = "resolved"
  /\ \A id \in 1..MaxCalls : ~InLoadTrack(id)

\* C37: playFromList(list, i) with i < 0 or i >= length of list (any i on
\* an empty list) does nothing: playlist, currentIndex, currentTrack and
\* isPlaying stay as they are and no load and no play is triggered.
C37_PlayFromListInvalid ==
  [][(task' = "playFromList"
        /\ (lastOp'.index < 0 \/ lastOp'.index >= Len(lastOp'.list))) =>
       /\ state' = state
       /\ audio' = audio
       /\ calls' = calls
       /\ loadListeners' = loadListeners
       /\ playPromises' = playPromises
       /\ lastOp'.plays = <<>>
       /\ cmds' = <<>>
       /\ urlOps' = <<>>]_vars

\* playFromList was called with the length of a two-track list as index
\* while a queue made of another list was playing
C37_Witness ==
  /\ task = "playFromList"
  /\ Len(lastOp.list) = 2 /\ lastOp.index = 2
  /\ state.isPlaying /\ state.currentTrack # NoTrack
  /\ state.playlist # <<>> /\ state.currentIndex = 0
  /\ state.playlist[1] # lastOp.list[1]
  /\ lastOp.plays = <<>>

\* The world of a UI call made in the React state st
FreshIn(st) == [Fresh EXCEPT !.st = st]

\* C38: toggleShuffle and toggleRepeat flip their own flag and leave every
\* other field of the state as it is (playlist, currentIndex, currentTrack,
\* isPlaying, currentTime, volume, isMuted, the other flag); the same toggle
\* applied once more gives the original state back, and neither triggers a
\* load or a play.
C38_TogglesFlipOwnFlag ==
  [][/\ task' = "toggleShuffle" =>
          /\ state' = [state EXCEPT !.shuffle = ~state.shuffle]
          /\ ToggleShuffleBy(FreshIn(state')).st = state
     /\ task' = "toggleRepeat" =>
          /\ state' = [state EXCEPT !.repeat = ~state.repeat]
          /\ ToggleRepeatBy(FreshIn(state')).st = state
     /\ task' \in {"toggleShuffle", "toggleRepeat"} =>
          /\ audio' = audio
          /\ calls' = calls
          /\ loadListeners' = loadListeners
          /\ playPromises' = playPromises
          /\ lastOp'.plays = <<>>
          /\ cmds' = <<>>
          /\ urlOps' = <<>>]_vars

\* toggleShuffle ran twice in a row while a queue was playing with repeat
\* set, and shuffle is off again
C38_Witness ==
  /\ task = "toggleShuffle"
  /\ lastOp.again
  /\ ~state.shuffle /\ state.repeat
  /\ state.playlist = <<RemoteTrack, DeviceTrack>>
  /\ state.isPlaying /\ state.currentTrack = DeviceTrack
  /\ left = 0

====
